---- MODULE Spec2Model ----
(***************************************************************************)
(* Model of src/trader.py: the DB4 wavelet kernel (DB4WaveletTransform)    *)
(* and the inventory-aware quoting engine (Trader.run).                    *)
(*                                                                         *)
(* Trader.run is modelled statement group by statement group; pc names the *)
(* position inside the handler.  Python floats are modelled exactly:       *)
(* next_mid_prices is kept as a rational <<numerator, denominator>> and    *)
(* the wavelet filters as fixed-point integers scaled by WScale.           *)
(***************************************************************************)
EXTENDS Integers, Sequences, FiniteSets

\* ------------------------------------------------------------------ bounds
MaxLevels == 2          \* price levels per book side in one-product ticks
MaxSample == 1          \* wavelet signal samples range over 0..MaxSample

\* ------------------------------------------------------- program constants
PosLimit     == 20      \* position limit used throughout run
LayerCap     == 40      \* per-layer cap of the passive quotes
HighPos      == 15      \* inventory threshold of the second passive layer
AmethystsFV  == 10000   \* fixed fair value of AMETHYSTS
MotherWaveletLength == 8

Products == {"AMETHYSTS", "STARFRUIT"}
PriceSet == (AmethystsFV - 1) .. (AmethystsFV + 1)
VolSet   == {3, 30}
Positions == {-PosLimit, -(HighPos + 1), -1, 1, HighPos + 1, PosLimit}

Min(a, b) == IF a < b THEN a ELSE b
Max(a, b) == IF a > b THEN a ELSE b

VARIABLES
    order_depths,      \* state.order_depths: sequence of [product, sell_orders, buy_orders] in key order
    position,          \* state.position: function on the products that have an entry
    pc,                \* position inside run
    i,                 \* index of the product the current loop is at
    j,                 \* index of the ladder level the current walk is at
    sell_orders,       \* product -> sorted ask ladder
    buy_orders,        \* product -> sorted bid ladder
    next_mid_prices,   \* product -> <<num, den>>, the float mid as an exact rational
    acc_price, cur_pos, CUR_POS_STATIC,
    best_sell, best_buy, undercut_buy, undercut_sell, our_bid, our_ask,
    orders,            \* orders of the current product, in emission order
    steps,             \* history: for each entry of orders, the statement that appended it
    result,            \* product -> orders
    prices, coefficients, reconstructed_signal, wpc   \* predict_next_price

tvars == <<order_depths, position, pc, i, j, sell_orders, buy_orders, next_mid_prices,
           acc_price, cur_pos, CUR_POS_STATIC, best_sell, best_buy, undercut_buy,
           undercut_sell, our_bid, our_ask, orders, steps, result>>
wvars == <<prices, coefficients, reconstructed_signal, wpc>>
vars == <<tvars, wvars>>

\* ----------------------------------------------------------------- inputs
DistinctKeys(s) == \A a, b \in 1..Len(s) : a # b => s[a][1] # s[b][1]

\* a dict price -> volume in arbitrary key order; sign = -1 for asks, 1 for bids
Sides(sign, maxLen) ==
    UNION { { s \in [1..n -> PriceSet \X {sign * v : v \in VolSet}] : DistinctKeys(s) }
            : n \in 0..maxLen }

NoPosition == [p \in {} |-> 0]

Depth(p, asks, bids) == [product |-> p, sell_orders |-> asks, buy_orders |-> bids]

\* ------------------------------------------------------ helpers of run
\* sorted(d.items()) / sorted(d.items(), reverse=True): insertion into a sorted list
Before(a, b, reverse) ==
    IF reverse THEN a[1] > b[1] \/ (a[1] = b[1] /\ a[2] > b[2])
               ELSE a[1] < b[1] \/ (a[1] = b[1] /\ a[2] < b[2])

RECURSIVE Insert(_, _, _)
Insert(x, s, reverse) ==
    IF s = <<>> THEN <<x>>
    ELSE IF Before(x, Head(s), reverse) THEN <<x>> \o s
    ELSE <<Head(s)>> \o Insert(x, Tail(s), reverse)

RECURSIVE sorted(_, _)
sorted(items, reverse) ==
    IF items = <<>> THEN <<>>
    ELSE Insert(Head(items), sorted(Tail(items), reverse), reverse)

\* variant: the asks left in the key order of the input
SortAsksKeyOrder(items) == items
SortAsks(items) == sorted(items, FALSE)
SortBids(items) == sorted(items, TRUE)

\* the accumulation loops of lines 207-213
RECURSIVE SumTo(_, _)
SumTo(f, n) == IF n = 0 THEN 0 ELSE f[n] + SumTo(f, n - 1)

\* variant: the sign flip of the ask volume is missing
AskPriceVolTermUnsigned(ask_price, ask_vol) == ask_price * ask_vol
AskPriceVolTerm(ask_price, ask_vol) == ask_price * (-ask_vol)

tot_ask_price_vol(asks) ==
    SumTo([k \in 1..Len(asks) |-> AskPriceVolTerm(asks[k][1], asks[k][2])], Len(asks))
tot_ask_vol(asks) == SumTo([k \in 1..Len(asks) |-> -asks[k][2]], Len(asks))
tot_bid_price_vol(bids) == SumTo([k \in 1..Len(bids) |-> bids[k][1] * bids[k][2]], Len(bids))
tot_bid_vol(bids) == SumTo([k \in 1..Len(bids) |-> bids[k][2]], Len(bids))

\* the divisions of lines 215-216 raise ZeroDivisionError
\* variant: an empty side does not raise
ZeroDivisionGuarded(asks, bids) == FALSE
ZeroDivision(asks, bids) == tot_bid_vol(bids) = 0 \/ tot_ask_vol(asks) = 0

\* (next_ask + next_bid) / 2 as the exact rational <<num, den>>
NextMid(asks, bids) ==
    LET A == tot_ask_price_vol(asks)
        a == tot_ask_vol(asks)
        B == tot_bid_price_vol(bids)
        b == tot_bid_vol(bids)
    IN  IF a * b > 0 THEN <<A * b + B * a, 2 * a * b>>
                     ELSE <<-(A * b + B * a), -(2 * a * b)>>

\* Python int(): truncation toward zero, of a rational with positive denominator
PyInt(q) == IF q[1] >= 0 THEN q[1] \div q[2] ELSE -((-q[1]) \div q[2])

AccPrice(product, mid) == IF product = "AMETHYSTS" THEN AmethystsFV ELSE PyInt(mid)

\* values_extract: the scan of lines 159-165 from level k on
RECURSIVE ValuesScan(_, _, _, _, _, _)
ValuesScan(d, buy, k, tot_vol, best_val, mxvol) ==
    IF k > Len(d) THEN best_val
    ELSE LET vol == IF buy = 0 THEN -d[k][2] ELSE d[k][2]
             tot == tot_vol + vol
         IN  IF tot > mxvol THEN ValuesScan(d, buy, k + 1, tot, d[k][1], vol)
                            ELSE ValuesScan(d, buy, k + 1, tot, best_val, mxvol)

values_extract(order_dict, buy) == ValuesScan(order_dict, buy, 1, 0, -1, -1)

\* the conditions and sizes of the two passes
\* variant: asks at the fair value are taken as well
TakeAskAtOrBelow(ask_price, acc, static, cur) ==
    ask_price <= acc \/ (static < 0 /\ ask_price = acc /\ cur < PosLimit)
TakeAsk(ask_price, acc, static, cur) ==
    ask_price < acc \/ (static < 0 /\ ask_price = acc /\ cur < PosLimit)
TakeBid(bid_price, acc, static, cur) ==
    bid_price > acc \/ (static > 0 /\ bid_price = acc /\ cur > -PosLimit)
\* variant: the take is not capped by the headroom
BuyVolUncapped(ask_vol, cur) == -ask_vol
BuyVol(ask_vol, cur)  == Min(-ask_vol, PosLimit - cur)
SellVol(bid_vol, cur) == Max(-bid_vol, -PosLimit - cur)
BuyNum(cur)  == Min(LayerCap, PosLimit - cur)
SellNum(cur) == Max(-LayerCap, -PosLimit - cur)

OurBid(ub, acc) == Min(ub, acc - 1)
OurAsk(us, acc) == Min(us, acc + 1)
BuyPrice1(ub, acc)  == Min(ub + 1, acc - 1)
BuyPrice2(ub, acc)  == Min(ub - 1, acc - 1)
SellPrice1(us, acc) == Max(us - 1, acc + 1)
SellPrice2(us, acc) == Max(us + 1, acc + 1)

BuyLayer1Fires(cur, static)  == cur < PosLimit /\ static < 0
BuyLayer2Fires(cur, static)  == cur < PosLimit /\ static > HighPos
\* variant: the catch-all also fires at the limit
BuyLayer3FiresAtLimit(cur)   == cur <= PosLimit
BuyLayer3Fires(cur)          == cur < PosLimit
SellLayer1Fires(cur, static) == cur > -PosLimit /\ static > 0
SellLayer2Fires(cur, static) == cur > -PosLimit /\ static < -HighPos
SellLayer3Fires(cur)         == cur > -PosLimit

\* line 264: the SELL pass restarts from the tick-start position
\* variant: the SELL pass continues from where the BUY pass ended
SellStartPosCarried(static, cur) == cur
SellStartPos(static, cur) == static

Order(symbol, price, quantity) == [symbol |-> symbol, price |-> price, quantity |-> quantity]
Step(layer, level, before, after) == [layer |-> layer, level |-> level, before |-> before, after |-> after]

Put(f, k, v) == [x \in (DOMAIN f) \cup {k} |-> IF x = k THEN v ELSE f[x]]
EmptyMap == [x \in {} |-> 0]

\* ------------------------------------------------------------- Trader.run
product == order_depths[i].product

WaveletIdle ==
    /\ prices = <<>> /\ coefficients = <<>> /\ reconstructed_signal = <<>> /\ wpc = "idle"

\* one-product ticks carry full ladders; two-product ticks carry top-of-book ladders
OneProductTick ==
    \E p \in Products, asks \in Sides(-1, MaxLevels), bids \in Sides(1, MaxLevels) :
        /\ order_depths = <<Depth(p, asks, bids)>>
        /\ position \in {NoPosition} \cup [{p} -> Positions]

TwoProductTick ==
    \E p \in Products, q \in Products, a1 \in Sides(-1, 1), b1 \in Sides(1, 1),
       a2 \in Sides(-1, 1), b2 \in Sides(1, 1) :
        /\ p # q
        /\ order_depths = <<Depth(p, a1, b1), Depth(q, a2, b2)>>
        /\ position = NoPosition

RunEntry ==
    /\ pc = "prepare" /\ i = 1 /\ j = 1
    /\ sell_orders = EmptyMap /\ buy_orders = EmptyMap /\ next_mid_prices = EmptyMap
    /\ acc_price = 0 /\ cur_pos = 0 /\ CUR_POS_STATIC = 0
    /\ best_sell = 0 /\ best_buy = 0 /\ undercut_buy = 0 /\ undercut_sell = 0
    /\ our_bid = 0 /\ our_ask = 0
    /\ orders = <<>> /\ steps = <<>> /\ result = EmptyMap

Init ==
    /\ OneProductTick \/ TwoProductTick
    /\ RunEntry
    /\ WaveletIdle

\* lines 190-219: one iteration of the first loop
Prepare ==
    /\ pc = "prepare"
    /\ LET asks == SortAsks(order_depths[i].sell_orders)
           bids == SortBids(order_depths[i].buy_orders)
       IN  /\ sell_orders' = Put(sell_orders, product, asks)
           /\ buy_orders' = Put(buy_orders, product, bids)
           /\ IF ZeroDivision(asks, bids)
              THEN /\ pc' = "raised"
                   /\ UNCHANGED <<next_mid_prices, i>>
              ELSE /\ next_mid_prices' = Put(next_mid_prices, product, NextMid(asks, bids))
                   /\ IF i < Len(order_depths)
                      THEN i' = i + 1 /\ pc' = "prepare"
                      ELSE i' = 1 /\ pc' = "begin"
    /\ UNCHANGED <<order_depths, position, j, acc_price, cur_pos, CUR_POS_STATIC, best_sell,
                   best_buy, undercut_buy, undercut_sell, our_bid, our_ask, orders, steps,
                   result, wvars>>

\* lines 222-232
Begin ==
    /\ pc = "begin"
    /\ orders' = <<>> /\ steps' = <<>>
    /\ acc_price' = AccPrice(product, next_mid_prices[product])
    /\ IF product \in DOMAIN position
       THEN CUR_POS_STATIC' = position[product] /\ cur_pos' = position[product]
       ELSE CUR_POS_STATIC' = 0 /\ cur_pos' = 0
    /\ j' = 1
    /\ pc' = "buy_walk"
    /\ UNCHANGED <<order_depths, position, i, sell_orders, buy_orders, next_mid_prices,
                   best_sell, best_buy, undercut_buy, undercut_sell, our_bid, our_ask,
                   result, wvars>>

Emit(layer, level, price, quantity) ==
    /\ orders' = Append(orders, Order(product, price, quantity))
    /\ steps' = Append(steps, Step(layer, level, cur_pos, cur_pos + quantity))
    /\ cur_pos' = cur_pos + quantity

\* lines 234-238: one iteration of the walk over the asks
BuyLevel ==
    /\ pc = "buy_walk"
    /\ j <= Len(sell_orders[product])
    /\ LET ask_price == sell_orders[product][j][1]
           ask_vol == sell_orders[product][j][2]
       IN  IF TakeAsk(ask_price, acc_price, CUR_POS_STATIC, cur_pos)
           THEN Emit("buy_take", j, ask_price, BuyVol(ask_vol, cur_pos))
           ELSE UNCHANGED <<orders, steps, cur_pos>>
    /\ j' = j + 1
    /\ UNCHANGED <<order_depths, position, pc, i, sell_orders, buy_orders, next_mid_prices,
                   acc_price, CUR_POS_STATIC, best_sell, best_buy, undercut_buy,
                   undercut_sell, our_bid, our_ask, result, wvars>>

\* lines 240-247
Quote ==
    /\ pc = "buy_walk"
    /\ j > Len(sell_orders[product])
    /\ best_sell' = values_extract(sell_orders[product], 0)
    /\ best_buy' = values_extract(buy_orders[product], 1)
    /\ undercut_buy' = best_buy' + 1
    /\ undercut_sell' = best_sell' - 1
    /\ our_bid' = OurBid(undercut_buy', acc_price)
    /\ our_ask' = OurAsk(undercut_sell', acc_price)
    /\ pc' = "buy_layer1"
    /\ UNCHANGED <<order_depths, position, i, j, sell_orders, buy_orders, next_mid_prices,
                   acc_price, cur_pos, CUR_POS_STATIC, orders, steps, result, wvars>>

Layer(at, fires, name, price, num, next) ==
    /\ pc = at
    /\ IF fires THEN Emit(name, 0, price, num)
                ELSE UNCHANGED <<orders, steps, cur_pos>>
    /\ pc' = next
    /\ UNCHANGED <<order_depths, position, i, j, sell_orders, buy_orders, next_mid_prices,
                   acc_price, CUR_POS_STATIC, best_sell, best_buy, undercut_buy,
                   undercut_sell, our_bid, our_ask, result, wvars>>

\* lines 249-252
BuyLayer1 ==
    Layer("buy_layer1", BuyLayer1Fires(cur_pos, CUR_POS_STATIC), "buy_layer1",
          BuyPrice1(undercut_buy, acc_price), BuyNum(cur_pos), "buy_layer2")
\* lines 254-257
BuyLayer2 ==
    Layer("buy_layer2", BuyLayer2Fires(cur_pos, CUR_POS_STATIC), "buy_layer2",
          BuyPrice2(undercut_buy, acc_price), BuyNum(cur_pos), "buy_layer3")
\* lines 259-262
BuyLayer3 ==
    Layer("buy_layer3", BuyLayer3Fires(cur_pos), "buy_layer3",
          our_bid, BuyNum(cur_pos), "sell_start")

\* line 264
SellStart ==
    /\ pc = "sell_start"
    /\ cur_pos' = SellStartPos(CUR_POS_STATIC, cur_pos)
    /\ j' = 1
    /\ pc' = "sell_walk"
    /\ UNCHANGED <<order_depths, position, i, sell_orders, buy_orders, next_mid_prices,
                   acc_price, CUR_POS_STATIC, best_sell, best_buy, undercut_buy,
                   undercut_sell, our_bid, our_ask, orders, steps, result, wvars>>

\* lines 266-270: one iteration of the walk over the bids
SellLevel ==
    /\ pc = "sell_walk"
    /\ j <= Len(buy_orders[product])
    /\ LET bid_price == buy_orders[product][j][1]
           bid_vol == buy_orders[product][j][2]
       IN  IF TakeBid(bid_price, acc_price, CUR_POS_STATIC, cur_pos)
           THEN Emit("sell_take", j, bid_price, SellVol(bid_vol, cur_pos))
           ELSE UNCHANGED <<orders, steps, cur_pos>>
    /\ j' = j + 1
    /\ UNCHANGED <<order_depths, position, pc, i, sell_orders, buy_orders, next_mid_prices,
                   acc_price, CUR_POS_STATIC, best_sell, best_buy, undercut_buy,
                   undercut_sell, our_bid, our_ask, result, wvars>>

\* the walk over the bids is exhausted
SellWalkEnd ==
    /\ pc = "sell_walk"
    /\ j > Len(buy_orders[product])
    /\ pc' = "sell_layer1"
    /\ UNCHANGED <<order_depths, position, i, j, sell_orders, buy_orders, next_mid_prices,
                   acc_price, cur_pos, CUR_POS_STATIC, best_sell, best_buy, undercut_buy,
                   undercut_sell, our_bid, our_ask, orders, steps, result, wvars>>

\* lines 272-275
SellLayer1 ==
    Layer("sell_layer1", SellLayer1Fires(cur_pos, CUR_POS_STATIC), "sell_layer1",
          SellPrice1(undercut_sell, acc_price), SellNum(cur_pos), "sell_layer2")
\* lines 277-280
SellLayer2 ==
    Layer("sell_layer2", SellLayer2Fires(cur_pos, CUR_POS_STATIC), "sell_layer2",
          SellPrice2(undercut_sell, acc_price), SellNum(cur_pos), "sell_layer3")
\* lines 282-285
SellLayer3 ==
    Layer("sell_layer3", SellLayer3Fires(cur_pos), "sell_layer3",
          our_ask, SellNum(cur_pos), "store")

\* line 287 and the step of the second loop
Store ==
    /\ pc = "store"
    /\ result' = Put(result, product, orders)
    /\ IF i < Len(order_depths)
       THEN i' = i + 1 /\ pc' = "begin"
       ELSE i' = i /\ pc' = "return"
    /\ UNCHANGED <<order_depths, position, j, sell_orders, buy_orders, next_mid_prices,
                   acc_price, cur_pos, CUR_POS_STATIC, best_sell, best_buy, undercut_buy,
                   undercut_sell, our_bid, our_ask, orders, steps, wvars>>

\* lines 289-292
Return ==
    /\ pc = "return"
    /\ pc' = "done"
    /\ UNCHANGED <<order_depths, position, i, j, sell_orders, buy_orders, next_mid_prices,
                   acc_price, cur_pos, CUR_POS_STATIC, best_sell, best_buy, undercut_buy,
                   undercut_sell, our_bid, our_ask, orders, steps, result, wvars>>

Next ==
    \/ Prepare \/ Begin \/ BuyLevel \/ Quote \/ BuyLayer1 \/ BuyLayer2 \/ BuyLayer3
    \/ SellStart \/ SellLevel \/ SellWalkEnd \/ SellLayer1 \/ SellLayer2 \/ SellLayer3
    \/ Store \/ Return

Spec == Init /\ [][Next]_vars

\* ------------------------------------------------------ claims on run
BuyLayers  == {"buy_layer1", "buy_layer2", "buy_layer3"}
SellLayers == {"sell_layer1", "sell_layer2", "sell_layer3"}
BuyPass    == {"buy_take"} \cup BuyLayers
SellPass   == {"sell_take"} \cup SellLayers

\* the sum of the quantities of the first n orders appended by the given statements
RECURSIVE QtyUpTo(_, _)
QtyUpTo(n, layers) ==
    IF n = 0 THEN 0
    ELSE (IF steps[n].layer \in layers THEN orders[n].quantity ELSE 0) + QtyUpTo(n - 1, layers)

\* the sum of the quantities taken by a walk at the levels before level k
RECURSIVE TakenBefore(_, _, _)
TakenBefore(n, k, layer) ==
    IF n = 0 THEN 0
    ELSE (IF steps[n].layer = layer /\ steps[n].level < k THEN orders[n].quantity ELSE 0)
         + TakenBefore(n - 1, k, layer)

\* orders, steps, acc_price and the position counters belong to order_depths[i]
InProduct == pc \notin {"prepare", "raised", "begin"}
Emitted(layers) == IF InProduct THEN {k \in 1..Len(orders) : steps[k].layer \in layers} ELSE {}
PassOf(k) == IF steps[k].layer \in BuyPass THEN BuyPass ELSE SellPass
BuyWalkDone == InProduct /\ pc # "buy_walk"
BuyPassDone == BuyWalkDone /\ pc \notin {"buy_layer1", "buy_layer2", "buy_layer3"}
SellPassDone == pc \in {"store", "return", "done"}
\* the ask levels the BUY walk has been through
AsksWalked ==
    IF ~InProduct THEN {}
    ELSE IF pc = "buy_walk" THEN 1..(j - 1)
    ELSE 1..Len(sell_orders[product])

\* C1: with a tick-start position within [-20, 20], the tick-start position plus the
\* quantities of the orders appended so far in the pass is within [-20, 20] after
\* every single order, in the BUY pass and in the SELL pass.
PositionBound ==
    \A k \in Emitted(BuyPass \cup SellPass) :
        LET running == CUR_POS_STATIC + QtyUpTo(k, PassOf(k))
        IN  running >= -PosLimit /\ running <= PosLimit

\* a walk order that the limit cut short, in each of the two passes
PositionBoundWitness ==
    /\ pc = "store"
    /\ \E k \in Emitted({"buy_take"}) :
          /\ orders[k].quantity > 0
          /\ orders[k].quantity < -sell_orders[product][steps[k].level][2]
    /\ \E k \in Emitted({"sell_take"}) :
          /\ orders[k].quantity < 0
          /\ orders[k].quantity > -buy_orders[product][steps[k].level][2]

\* C3: walking the asks, a buy order is emitted against a level exactly when its price
\* is below V, or the tick-start position is negative, the price equals V and the
\* running position is below 20; its quantity is min(available, 20 - running position).
\* With a tick-start position that is not negative no buy is taken at a price >= V.
AggressiveFillRule ==
    /\ \A l \in AsksWalked :
          LET price == sell_orders[product][l][1]
              avail == -sell_orders[product][l][2]
              running == CUR_POS_STATIC + TakenBefore(Len(orders), l, "buy_take")
              due == \/ price < acc_price
                     \/ CUR_POS_STATIC < 0 /\ price = acc_price /\ running < 20
              at == {k \in Emitted({"buy_take"}) : steps[k].level = l}
          IN  /\ due <=> at # {}
              /\ Cardinality(at) <= 1
              /\ \A k \in at :
                    /\ orders[k].price = price
                    /\ orders[k].quantity = (IF avail < 20 - running THEN avail ELSE 20 - running)
    /\ \A k \in Emitted({"buy_take"}) :
          /\ steps[k].level \in AsksWalked
          /\ CUR_POS_STATIC >= 0 => orders[k].price < acc_price

\* the case of the specification: an ask below V and an ask at V, position 0:
\* the first is bought in full, the second is left alone
AggressiveFillWitness ==
    /\ BuyWalkDone
    /\ CUR_POS_STATIC = 0
    /\ Len(sell_orders[product]) = 2
    /\ sell_orders[product][1][1] = acc_price - 1
    /\ sell_orders[product][2][1] = acc_price
    /\ \E b \in 1..Len(buy_orders[product]) : buy_orders[product][b][1] = acc_price + 1
    /\ Cardinality(Emitted({"buy_take"})) = 1
    /\ \A k \in Emitted({"buy_take"}) :
          /\ orders[k].price = acc_price - 1
          /\ orders[k].quantity = -sell_orders[product][1][2]

\* C4: when the running position is below 20 after the aggressive buys, exactly one of
\* the three passive buy layers emits an order: the first when the tick-start position
\* is negative, else the second when it is above 15, else the catch-all, with quantity
\* min(40, 20 - running position); at a running position of 20 there is no passive buy.
PassiveBuyPriority ==
    BuyPassDone =>
        LET running == CUR_POS_STATIC + QtyUpTo(Len(orders), {"buy_take"})
            passive == Emitted(BuyLayers)
            layer == IF CUR_POS_STATIC < 0 THEN "buy_layer1"
                     ELSE IF CUR_POS_STATIC > 15 THEN "buy_layer2" ELSE "buy_layer3"
            base == IF CUR_POS_STATIC < 0 THEN undercut_buy + 1
                    ELSE IF CUR_POS_STATIC > 15 THEN undercut_buy - 1 ELSE undercut_buy
            price == IF base < acc_price - 1 THEN base ELSE acc_price - 1
            num == IF 40 < 20 - running THEN 40 ELSE 20 - running
        IN  IF running < 20
            THEN /\ Cardinality(passive) = 1
                 /\ \A k \in passive :
                       /\ steps[k].layer = layer
                       /\ orders[k].price = price
                       /\ orders[k].quantity = num
            ELSE passive = {}

\* the first layer fires ahead of the catch-all after an aggressive buy
PassiveBuyWitness ==
    /\ BuyPassDone
    /\ CUR_POS_STATIC < 0
    /\ Emitted({"buy_take"}) # {}
    /\ \E k \in Emitted({"buy_layer1"}) : orders[k].quantity > 0
    /\ Emitted({"buy_layer3"}) = {}

\* C6: whatever the key order of the input book, the asks are processed from the lowest
\* price upward and the bids from the highest price downward: the aggressive buys
\* appear in strictly ascending price order, the aggressive sells in strictly
\* descending price order.
LadderOrdering ==
    /\ \A k, m \in Emitted({"buy_take"}) : k < m => orders[k].price < orders[m].price
    /\ \A k, m \in Emitted({"sell_take"}) : k < m => orders[k].price > orders[m].price
    /\ InProduct =>
          /\ \A l \in 1..Len(order_depths[i].sell_orders) :
                sell_orders[product][1][1] <= order_depths[i].sell_orders[l][1]
          /\ \A l \in 1..Len(order_depths[i].buy_orders) :
                buy_orders[product][1][1] >= order_depths[i].buy_orders[l][1]

\* a book given with its asks in descending and its bids in ascending key order,
\* and two aggressive buys made
LadderOrderingWitness ==
    /\ InProduct
    /\ Len(order_depths[i].sell_orders) = 2
    /\ order_depths[i].sell_orders[1][1] > order_depths[i].sell_orders[2][1]
    /\ Len(order_depths[i].buy_orders) = 2
    /\ order_depths[i].buy_orders[1][1] < order_depths[i].buy_orders[2][1]
    /\ Cardinality(Emitted({"buy_take"})) = 2
    /\ Emitted({"sell_take"}) # {}

\* C10: the quantities of the BUY-pass orders sum to 20 - p and those of the SELL-pass
\* orders to -20 - p, p the tick-start position; the cap of 40 limits no order.
FullHeadroom ==
    /\ BuyPassDone => QtyUpTo(Len(orders), BuyPass) = 20 - CUR_POS_STATIC
    /\ SellPassDone => QtyUpTo(Len(orders), SellPass) = -20 - CUR_POS_STATIC
    /\ \A k \in Emitted(BuyLayers) : orders[k].quantity = 20 - steps[k].before
    /\ \A k \in Emitted(SellLayers) : orders[k].quantity = -20 - steps[k].before

\* both passes quote, after the BUY pass has moved the running position
FullHeadroomWitness ==
    /\ SellPassDone
    /\ CUR_POS_STATIC = -1
    /\ QtyUpTo(Len(orders), BuyPass) = 21
    /\ QtyUpTo(Len(orders), SellPass) = -19
    /\ Emitted({"buy_take"}) # {}
    /\ Emitted({"sell_take"}) # {}

\* C5: for a fixed bid ladder, raising the price of one ask level, volumes and ladder
\* order unchanged, never lowers the fair value run computes for the product.
FairValueMonotone ==
    InProduct =>
        LET asks == sell_orders[product]
            bids == buy_orders[product]
        IN  \A l \in 1..Len(asks), d \in 1..3 :
               LET raised == [asks EXCEPT ![l] = <<asks[l][1] + d, asks[l][2]>>]
               IN  (l = Len(asks) \/ raised[l][1] < asks[l + 1][1])
                   => AccPrice(product, NextMid(raised, bids)) >= acc_price

\* a computed fair value that a raised ask moves strictly up
FairValueMonotoneWitness ==
    /\ InProduct
    /\ product = "STARFRUIT"
    /\ acc_price = PyInt(next_mid_prices[product])
    /\ \E l \in 1..Len(sell_orders[product]) :
          LET asks == sell_orders[product]
              raised == [asks EXCEPT ![l] = <<asks[l][1] + 1, asks[l][2]>>]
          IN  /\ (l = Len(asks) \/ raised[l][1] < asks[l + 1][1])
              /\ AccPrice(product, NextMid(raised, buy_orders[product])) > acc_price

\* C7: a product whose ask side or bid side is empty makes run fail: no fair value is
\* taken and no order is emitted for it, for AMETHYSTS as for the other products.
HasEmptySide(d) == Len(d.sell_orders) = 0 \/ Len(d.buy_orders) = 0

EmptySideFatal ==
    \A k \in 1..Len(order_depths) :
        HasEmptySide(order_depths[k]) =>
            /\ pc \in {"prepare", "raised"}
            /\ orders = <<>>
            /\ result = EmptyMap
            /\ order_depths[k].product \notin DOMAIN next_mid_prices
            /\ order_depths[k].product \in DOMAIN sell_orders => pc = "raised"

\* run has failed on the fixed-fair-value product
EmptySideFatalWitness ==
    /\ pc = "raised"
    /\ product = "AMETHYSTS"
    /\ HasEmptySide(order_depths[i])
    /\ Len(order_depths[i].sell_orders) > 0

\* C8: values_extract returns the price of the level whose own volume is the largest
\* of the ladder, the first such level in ladder order.
Quoted == InProduct /\ pc # "buy_walk"
FirstLargest(d, sign, best) ==
    \E k \in 1..Len(d) :
        /\ best = d[k][1]
        /\ \A m \in 1..Len(d) : sign * d[m][2] <= sign * d[k][2]
        /\ \A m \in 1..(k - 1) : sign * d[m][2] < sign * d[k][2]

BestPriceTieBreak ==
    Quoted => /\ FirstLargest(sell_orders[product], -1, best_sell)
              /\ FirstLargest(buy_orders[product], 1, best_buy)

\* C9: every passive buy is priced at or below V - 1 and every passive sell at or
\* above V + 1.
PassiveQuoteSides ==
    /\ \A k \in Emitted(BuyLayers) : orders[k].price <= acc_price - 1
    /\ \A k \in Emitted(SellLayers) : orders[k].price >= acc_price + 1

\* ---------------------------------------------------- DB4WaveletTransform
\* the filter taps in thousandths (WScale), rounded to the nearest integer
WScale == 10 ^ 3
decompositionLowFilter    == <<-11, 33, 31, -187, -28, 631, 715, 230>>
decompositionHighFilter   == <<-230, 715, -631, -28, 187, 31, -33, -11>>
reconstructionLowFilter   == <<230, 715, 631, -28, -187, 31, 33, -11>>
reconstructionHighFilter  == <<-11, -33, 31, 187, -28, -631, 715, -230>>

\* k = (i << 1) + j, then "while k >= level: k -= level"
Circulate(ii, jj, level) == (2 * ii + jj) % level

\* dwt: arrHilbert, a list of level values scaled by WScale
dwt(arrTime, level) ==
    LET a == level \div 2
        Acc(ii, filter) ==
            SumTo([t \in 1..MotherWaveletLength |->
                      arrTime[Circulate(ii, t - 1, level) + 1] * filter[t]],
                  MotherWaveletLength)
    IN  [n \in 1..level |->
            IF n <= a THEN Acc(n - 1, decompositionLowFilter)
            ELSE IF n <= 2 * a THEN Acc(n - 1 - a, decompositionHighFilter)
            ELSE 0]

\* idwt: arrTime, a list of level values scaled by WScale of its input
idwt(arrHilbert, level) ==
    LET a == level \div 2
        Term(ii, jj, k) ==
            IF Circulate(ii, jj, level) = k
            THEN arrHilbert[ii + 1] * reconstructionLowFilter[jj + 1]
                 + arrHilbert[ii + a + 1] * reconstructionHighFilter[jj + 1]
            ELSE 0
    IN  [n \in 1..level |->
            SumTo([t \in 1..(a * MotherWaveletLength) |->
                      Term((t - 1) \div MotherWaveletLength, (t - 1) % MotherWaveletLength, n - 1)],
                  a * MotherWaveletLength)]

\* ------------------------------------------- Trader.predict_next_price
SignalLengths == {MotherWaveletLength, MotherWaveletLength + 2}

RunIdle ==
    /\ order_depths = <<>> /\ position = NoPosition
    /\ pc = "idle" /\ i = 1 /\ j = 1
    /\ sell_orders = EmptyMap /\ buy_orders = EmptyMap /\ next_mid_prices = EmptyMap
    /\ acc_price = 0 /\ cur_pos = 0 /\ CUR_POS_STATIC = 0
    /\ best_sell = 0 /\ best_buy = 0 /\ undercut_buy = 0 /\ undercut_sell = 0
    /\ our_bid = 0 /\ our_ask = 0
    /\ orders = <<>> /\ steps = <<>> /\ result = EmptyMap

InitWavelet ==
    /\ RunIdle
    /\ \E n \in SignalLengths : prices \in [1..n -> 0..MaxSample]
    /\ coefficients = <<>> /\ reconstructed_signal = <<>>
    /\ wpc = "dwt"

\* line 149
Decompose ==
    /\ wpc = "dwt"
    /\ coefficients' = dwt(prices, Len(prices))
    /\ wpc' = "idwt"
    /\ UNCHANGED <<prices, reconstructed_signal, tvars>>

\* lines 150-151
Reconstruct ==
    /\ wpc = "idwt"
    /\ reconstructed_signal' = idwt(coefficients, Len(prices))
    /\ wpc' = "done"
    /\ UNCHANGED <<prices, coefficients, tvars>>

NextWavelet == Decompose \/ Reconstruct

SpecWavelet == InitWavelet /\ [][NextWavelet]_vars

\* C2: for an even-length signal S of length N >= 8, predict_next_price(S, N) equals S
\* element by element.  The taps are rounded to thousandths here, so the comparison
\* allows a twentieth of the largest sample (at least of 1) instead of 1e-9.
Abs(x) == IF x < 0 THEN -x ELSE x
RECURSIVE MaxAbs(_, _)
MaxAbs(sig, n) == IF n = 0 THEN 1 ELSE Max(Abs(sig[n]), MaxAbs(sig, n - 1))

RoundTripIdentity ==
    wpc = "done" =>
        \A k \in 1..Len(prices) :
            20 * Abs(reconstructed_signal[k] - prices[k] * WScale * WScale)
                <= MaxAbs(prices, Len(prices)) * WScale * WScale

====
